---- MODULE Spec2Model ----
(***************************************************************************)
(* A model of gdb/mi/mi-cmd-stack.c: the MI stack commands                 *)
(* (-stack-list-frames, -stack-info-depth, -stack-list-locals,             *)
(* -stack-list-arguments, -stack-list-variables, -stack-select-frame,      *)
(* -stack-info-frame, -enable-frame-filters).                              *)
(*                                                                         *)
(* Every handler is one action.  What a handler does is computed by an     *)
(* operator of the same name that returns a record                         *)
(*   status  "done" (normal return), "error" (error () was called),        *)
(*           "crash" (a NULL argv slot was dereferenced)                   *)
(*   msg     the error message                                             *)
(*   out     the events written to current_uiout, in order                 *)
(*   tr      the calls made to the collaborators, in order                 *)
(*   reads   the argv positions read (0-based)                             *)
(* The debugger state the handlers borrow (the frame chain, the blocks and *)
(* symbols of each frame, what read_frame_arg returns for a symbol) is the *)
(* variable stack; the external frame filter's answer is an input.         *)
(***************************************************************************)
EXTENDS Integers, Sequences, FiniteSets, TLC

VARIABLES frame_filters, stack, selected, pc, req, res

vars == <<frame_filters, stack, selected, pc, req, res>>

(***************************************************************************)
(* Bounds of the model.                                                    *)
(***************************************************************************)
MaxDepth == 3

MaxArgc == 4

MaxSyms == 2

MaxBlocks == 2

(***************************************************************************)
(* Enumerations of the source.                                             *)
(***************************************************************************)
locals == "locals"

arguments == "arguments"

all == "all"

what_to_list == {locals, arguments, all}

PRINT_NO_VALUES == "PRINT_NO_VALUES"

PRINT_ALL_VALUES == "PRINT_ALL_VALUES"

PRINT_SIMPLE_VALUES == "PRINT_SIMPLE_VALUES"

print_values == {PRINT_NO_VALUES, PRINT_ALL_VALUES, PRINT_SIMPLE_VALUES}

PY_BT_ERROR == "PY_BT_ERROR"

PY_BT_COMPLETED == "PY_BT_COMPLETED"

PY_BT_NO_FILTERS == "PY_BT_NO_FILTERS"

print_entry_values_no == "print_entry_values_no"

print_entry_values_only == "print_entry_values_only"

NULL == "NULL"

ExcludedClasses ==
  {"LOC_UNDEF", "LOC_CONST", "LOC_TYPEDEF", "LOC_LABEL", "LOC_BLOCK",
   "LOC_CONST_BYTES", "LOC_UNRESOLVED", "LOC_OPTIMIZED_OUT"}

CandidateClasses ==
  {"LOC_ARG", "LOC_REF_ARG", "LOC_REGPARM_ADDR", "LOC_LOCAL", "LOC_STATIC",
   "LOC_REGISTER", "LOC_COMPUTED"}

AddressClasses == ExcludedClasses \cup CandidateClasses

(***************************************************************************)
(* Types.  check_typedef strips a typedef, TYPE_CODE gives the code of a   *)
(* type and type_print the text of the type as it was declared.            *)
(***************************************************************************)
Types == {"T_INT", "T_ARRAY", "T_STRUCT", "T_UNION", "T_TYPEDEF_INT", "T_TYPEDEF_STRUCT"}

check_typedef(type) ==
  CASE type = "T_TYPEDEF_INT" -> "T_INT"
    [] type = "T_TYPEDEF_STRUCT" -> "T_STRUCT"
    [] OTHER -> type

TYPE_CODE(type) ==
  CASE type = "T_INT" -> "TYPE_CODE_INT"
    [] type = "T_ARRAY" -> "TYPE_CODE_ARRAY"
    [] type = "T_STRUCT" -> "TYPE_CODE_STRUCT"
    [] type = "T_UNION" -> "TYPE_CODE_UNION"
    [] OTHER -> "TYPE_CODE_TYPEDEF"

type_print(type) ==
  CASE type = "T_INT" -> "int"
    [] type = "T_ARRAY" -> "int [2]"
    [] type = "T_STRUCT" -> "struct s"
    [] type = "T_UNION" -> "union u"
    [] type = "T_TYPEDEF_INT" -> "myint"
    [] type = "T_TYPEDEF_STRUCT" -> "mystruct"

(***************************************************************************)
(* The structured output sink (current_uiout): a sequence of events.       *)
(***************************************************************************)
ListBegin(id) == <<"list_begin", id>>

TupleBegin(id) == <<"tuple_begin", id>>

End == <<"end">>

Itoa(n) ==
  CASE n = -1 -> "-1"
    [] n = 0 -> "0"
    [] n = 1 -> "1"
    [] n = 2 -> "2"
    [] n = 3 -> "3"
    [] n = 4 -> "4"
    [] n = 5 -> "5"
    [] n = 6 -> "6"
    [] OTHER -> "?"

Field(name, text) == <<"field", name, text>>

FieldInt(name, n) == Field(name, Itoa(n))

(***************************************************************************)
(* The debugger state borrowed by a request.                               *)
(*   symbol  [name, class, is_argument, type, fetch]; fetch is what        *)
(*           read_frame_arg finds for the symbol in its frame:             *)
(*           fetch.a  "val" (a value), "unprintable" (a value whose        *)
(*                    printing raises an error), "error" (the read         *)
(*                    failed), "none" (only the entry value exists)        *)
(*           fetch.e  "none" (no entry value), "val", "error"              *)
(*   block   [function, syms]                                              *)
(*   frame   [blocks]: the block of the frame's pc and its superblocks,    *)
(*           innermost first; <<>> when the frame has no block             *)
(***************************************************************************)
SYMBOL_CLASS(sym) == sym.class

SYMBOL_IS_ARGUMENT(sym) == sym.is_argument

SYMBOL_PRINT_NAME(sym) == sym.name

BLOCK_FUNCTION(block) == block.function

\* The superblock of block b of a frame: the next block of the chain, 0 at its end.
BLOCK_SUPERBLOCK(fr, b) == IF b < Len(fr.blocks) THEN b + 1 ELSE 0

\* get_frame_block: the innermost block of the frame, 0 when it has none.
get_frame_block(fr) == IF Len(fr.blocks) = 0 THEN 0 ELSE 1

\* lookup_symbol (name, block, VAR_DOMAIN): the symbol of that name in the
\* block or, failing that, in its superblocks; <<>> when there is none.  In a
\* function's block a symbol that is not a parameter is preferred to a
\* parameter of the same name.
RECURSIVE lookup_symbol(_, _, _)
lookup_symbol(name, fr, b) ==
  IF b = 0 THEN <<>>
  ELSE LET syms == fr.blocks[b].syms
           hits == {k \in 1..Len(syms) : syms[k].name = name}
           others == {k \in hits : ~SYMBOL_IS_ARGUMENT(syms[k])}
           First(S) == CHOOSE k \in S : \A j \in S : k <= j
           Last(S) == CHOOSE k \in S : \A j \in S : k >= j
       IN IF hits = {} THEN lookup_symbol(name, fr, BLOCK_SUPERBLOCK(fr, b))
          ELSE IF ~BLOCK_FUNCTION(fr.blocks[b]) THEN <<syms[First(hits)]>>
          ELSE IF others # {} THEN <<syms[First(others)]>>
          ELSE <<syms[Last(hits)]>>

\* memset (&arg, 0, sizeof (arg)); arg.sym = sym2; arg.entry_kind = no.
zeroed_arg(sym2) ==
  [sym |-> sym2, val |-> NULL, error |-> NULL, entry_kind |-> print_entry_values_no]

ReadErrorMessage == "Cannot access memory"

PrintErrorMessage == "value is not printable"

\* read_frame_arg (sym2, fi, &arg, &entryarg): fills both requests.
read_frame_arg(sym2) ==
  [arg |->
     [sym |-> sym2,
      val |-> CASE sym2.fetch.a = "val" -> "V"
                [] sym2.fetch.a = "unprintable" -> "U"
                [] OTHER -> NULL,
      error |-> IF sym2.fetch.a = "error" THEN ReadErrorMessage ELSE NULL,
      entry_kind |-> IF sym2.fetch.a = "none" THEN print_entry_values_only
                     ELSE print_entry_values_no],
   entryarg |->
     [sym |-> sym2,
      val |-> IF sym2.fetch.e = "val" THEN "V" ELSE NULL,
      error |-> IF sym2.fetch.e = "error" THEN ReadErrorMessage ELSE NULL,
      entry_kind |-> IF sym2.fetch.e = "none" THEN print_entry_values_no
                     ELSE print_entry_values_only]]

\* common_val_print (arg->val, stb, ...) under TRY_CATCH: the text printed and
\* the message of the exception caught (NULL when none was raised).
common_val_print(arg) ==
  IF arg.val = "U" THEN [text |-> "", message |-> PrintErrorMessage]
  ELSE [text |-> "value of " \o arg.sym.name, message |-> NULL]

ErrorValue(message) == "<error reading variable: " \o message \o ">"

\* The three gdb_asserts at the head of list_arg_or_local.
list_arg_or_local_asserts(arg, values) ==
  /\ arg.val = NULL \/ arg.error = NULL
  /\ \/ values = PRINT_NO_VALUES /\ arg.val = NULL /\ arg.error = NULL
     \/ values = PRINT_SIMPLE_VALUES
     \/ values = PRINT_ALL_VALUES /\ (arg.val # NULL \/ arg.error # NULL)
  /\ \/ arg.entry_kind = print_entry_values_no
     \/ arg.entry_kind = print_entry_values_only
        /\ (arg.val # NULL \/ arg.error # NULL)

\* value_field that writes the message of a failure without marking it.
value_field_unmarked(arg) ==
  IF arg.val # NULL \/ arg.error # NULL
  THEN LET printed == IF arg.error # NULL
                      THEN [text |-> "", message |-> arg.error]
                      ELSE common_val_print(arg)
       IN <<Field("value",
                  IF printed.message # NULL
                  THEN printed.text \o printed.message
                  ELSE printed.text)>>
  ELSE <<>>

\* The value field of list_arg_or_local: <<>> when no value or error is attached.
value_field(arg) ==
  IF arg.val # NULL \/ arg.error # NULL
  THEN LET printed == IF arg.error # NULL
                      THEN [text |-> "", message |-> arg.error]
                      ELSE common_val_print(arg)
       IN <<Field("value",
                  IF printed.message # NULL
                  THEN printed.text \o ErrorValue(printed.message)
                  ELSE printed.text)>>
  ELSE <<>>

\* list_arg_or_local: the events one variable writes to the sink.
list_arg_or_local(arg, what, values) ==
  LET tuple == values # PRINT_NO_VALUES \/ what = all
  IN (IF tuple THEN <<TupleBegin("")>> ELSE <<>>)
     \o <<Field("name",
                IF arg.entry_kind = print_entry_values_only
                THEN SYMBOL_PRINT_NAME(arg.sym) \o "@entry"
                ELSE SYMBOL_PRINT_NAME(arg.sym))>>
     \o (IF what = all /\ SYMBOL_IS_ARGUMENT(arg.sym)
         THEN <<FieldInt("arg", 1)>> ELSE <<>>)
     \o (IF values = PRINT_SIMPLE_VALUES
         THEN <<Field("type", type_print(arg.sym.type))>> ELSE <<>>)
     \o value_field(arg)
     \o (IF tuple THEN <<End>> ELSE <<>>)

\* print_me that tells arguments from locals by storage class.
print_me_by_class(sym, what) ==
  IF SYMBOL_CLASS(sym) \in CandidateClasses
  THEN IF what = all THEN TRUE
       ELSE IF what = locals
       THEN SYMBOL_CLASS(sym) \notin {"LOC_ARG", "LOC_REF_ARG", "LOC_REGPARM_ADDR"}
       ELSE SYMBOL_CLASS(sym) \in {"LOC_ARG", "LOC_REF_ARG", "LOC_REGPARM_ADDR"}
  ELSE FALSE

\* The switch on SYMBOL_CLASS (sym) of list_args_or_locals.
print_me(sym, what) ==
  IF SYMBOL_CLASS(sym) \in CandidateClasses
  THEN IF what = all THEN TRUE
       ELSE IF what = locals THEN ~SYMBOL_IS_ARGUMENT(sym)
       ELSE SYMBOL_IS_ARGUMENT(sym)
  ELSE FALSE

\* fetch_wanted that reads the value under every policy.
fetch_wanted_always(values, sym2) == TRUE

\* fetch_wanted that looks at the type as declared, not behind its typedef.
fetch_wanted_no_typedef(values, sym2) ==
  CASE values = PRINT_SIMPLE_VALUES ->
         /\ TYPE_CODE(sym2.type) # "TYPE_CODE_ARRAY"
         /\ TYPE_CODE(sym2.type) # "TYPE_CODE_STRUCT"
         /\ TYPE_CODE(sym2.type) # "TYPE_CODE_UNION"
    [] values = PRINT_ALL_VALUES -> TRUE
    [] OTHER -> FALSE

\* fetch_wanted that reads values under PRINT_ALL_VALUES alone.
fetch_wanted_all_only(values, sym2) == values = PRINT_ALL_VALUES

\* The switch on values of list_args_or_locals: whether read_frame_arg is called.
fetch_wanted(values, sym2) ==
  CASE values = PRINT_SIMPLE_VALUES ->
         LET type == check_typedef(sym2.type)
         IN /\ TYPE_CODE(type) # "TYPE_CODE_ARRAY"
            /\ TYPE_CODE(type) # "TYPE_CODE_STRUCT"
            /\ TYPE_CODE(type) # "TYPE_CODE_UNION"
    [] values = PRINT_ALL_VALUES -> TRUE
    [] OTHER -> FALSE

AssertMessage == "internal-error: Assertion failed"

\* list_fetched that lists the entry value before the value.
list_fetched_entry_first(what, values, arg, entryarg, acc) ==
  LET first == arg.entry_kind # print_entry_values_only
      second == entryarg.entry_kind # print_entry_values_no
  IN [acc EXCEPT
        !.out = @ \o (IF second THEN list_arg_or_local(entryarg, what, values) ELSE <<>>)
                  \o (IF first THEN list_arg_or_local(arg, what, values) ELSE <<>>)]

\* The calls of list_arg_or_local at the end of the loop body: arg unless it
\* is an entry value only, then entryarg if read_frame_arg filled it.  acc is
\* the listing so far, [status, out, tr].
list_fetched(what, values, arg, entryarg, acc) ==
  LET first == arg.entry_kind # print_entry_values_only
      second == entryarg.entry_kind # print_entry_values_no
      name == arg.sym.name
  IN IF first /\ ~list_arg_or_local_asserts(arg, values)
     THEN [acc EXCEPT !.status = "internal_error"]
     ELSE IF second /\ ~list_arg_or_local_asserts(entryarg, values)
     THEN [acc EXCEPT
             !.status = "internal_error",
             !.out = @ \o (IF first THEN list_arg_or_local(arg, what, values) ELSE <<>>)]
     ELSE [acc EXCEPT
             !.out = @ \o (IF first THEN list_arg_or_local(arg, what, values) ELSE <<>>)
                       \o (IF second THEN list_arg_or_local(entryarg, what, values)
                           ELSE <<>>),
             !.tr = @ \o (IF first THEN <<<<"list_arg_or_local", name, "">>>> ELSE <<>>)
                      \o (IF second THEN <<<<"list_arg_or_local", name, "@entry">>>>
                          ELSE <<>>)]

\* The loop body from the memset on, for the symbol sym2 that was looked up.
list_found(what, values, sym2, acc) ==
  IF fetch_wanted(values, sym2)
  THEN list_fetched(what, values, read_frame_arg(sym2).arg, read_frame_arg(sym2).entryarg,
                    [acc EXCEPT !.tr = Append(@, <<"read_frame_arg", sym2.name,
                                                   sym2.fetch.a, sym2.fetch.e>>)])
  ELSE list_fetched(what, values, zeroed_arg(sym2), zeroed_arg(sym2), acc)

\* The body of the symbol loop for one symbol of block b.
list_symbol(what, values, fr, b, sym, acc) ==
  IF ~print_me(sym, what) THEN acc
  ELSE IF ~SYMBOL_IS_ARGUMENT(sym) THEN list_found(what, values, sym, acc)
  ELSE IF lookup_symbol(sym.name, fr, b) = <<>>
  THEN [acc EXCEPT !.status = "internal_error"]
  ELSE list_found(what, values, lookup_symbol(sym.name, fr, b)[1], acc)

\* ALL_BLOCK_SYMBOLS (block, iter, sym): the symbols of block b from the k-th on.
RECURSIVE block_symbols(_, _, _, _, _, _)
block_symbols(what, values, fr, b, k, acc) ==
  IF k > Len(fr.blocks[b].syms) \/ acc.status # "done" THEN acc
  ELSE block_symbols(what, values, fr, b, k + 1,
                     list_symbol(what, values, fr, b, fr.blocks[b].syms[k], acc))

\* block_walk that goes on to the outermost block.
RECURSIVE block_walk_to_top(_, _, _, _, _)
block_walk_to_top(what, values, fr, b, acc) ==
  IF b = 0 \/ acc.status # "done" THEN acc
  ELSE block_walk_to_top(what, values, fr, BLOCK_SUPERBLOCK(fr, b),
                         block_symbols(what, values, fr, b, 1,
                                       [acc EXCEPT !.tr = Append(@, <<"block", Itoa(b)>>)]))

\* while (block != 0): list the block, stop after the function's block.
RECURSIVE block_walk(_, _, _, _, _)
block_walk(what, values, fr, b, acc) ==
  IF b = 0 \/ acc.status # "done" THEN acc
  ELSE LET listed == block_symbols(what, values, fr, b, 1,
                                   [acc EXCEPT !.tr = Append(@, <<"block", Itoa(b)>>)])
       IN IF BLOCK_FUNCTION(fr.blocks[b]) THEN listed
          ELSE block_walk(what, values, fr, BLOCK_SUPERBLOCK(fr, b), listed)

name_of_result(what) ==
  CASE what = locals -> "locals"
    [] what = arguments -> "args"
    [] what = all -> "variables"

\* list_args_or_locals (what, values, fi): [status, out, tr].
list_args_or_locals(what, values, fr) ==
  LET walked == block_walk(what, values, fr, get_frame_block(fr),
                           [status |-> "done",
                            out |-> <<ListBegin(name_of_result(what))>>,
                            tr |-> <<<<"list_args_or_locals", what>>>>])
  IN [walked EXCEPT !.out = Append(@, End)]

(***************************************************************************)
(* Command arguments.  argv is a sequence of tokens; position k of the C   *)
(* array is argv[k + 1].  The slot argv[argc] is not an argument: reading  *)
(* it yields whatever the caller left there (oob), NULL in the MI parser,  *)
(* and handing NULL to atoi or strcmp is undefined.                        *)
(***************************************************************************)
NFF == "--no-frame-filters"

Tokens == {NFF, "0", "1", "2", "-1"}

OobSlots == {NULL, "0", "-1"}

Arg(argv, k, oob) == IF k < Len(argv) THEN argv[k + 1] ELSE oob

\* atoi: the decimal value of the leading number of the token, 0 when none.
atoi(tok) ==
  CASE tok = "0" -> 0
    [] tok = "1" -> 1
    [] tok = "2" -> 2
    [] tok = "3" -> 3
    [] tok = "-1" -> -1
    [] tok = "-2" -> -2
    [] OTHER -> 0

\* mi_parse_print_values: NULL when the token names no print-values policy
\* (the function then calls error ()).
mi_parse_print_values(tok) ==
  CASE tok = "0" \/ tok = "--no-values" -> PRINT_NO_VALUES
    [] tok = "1" \/ tok = "--all-values" -> PRINT_ALL_VALUES
    [] tok = "2" \/ tok = "--simple-values" -> PRINT_SIMPLE_VALUES
    [] OTHER -> NULL

PrintValuesError == "Unknown value for PRINT_VALUES"

parse_no_frames_option(arg) == IF arg # NULL /\ arg = "--no-frame-filters" THEN 1 ELSE 0

StartsWithDash(tok) == tok \in {NFF, "-1", "--"}

\* The mi_getopt loop of mi_cmd_stack_list_frames from position oind on:
\* [error, oind, raw_arg, last], last being the last position examined.
RECURSIVE parse_options(_, _, _)
parse_options(argv, oind, raw_arg) ==
  IF oind = Len(argv)
  THEN [error |-> FALSE, oind |-> oind, raw_arg |-> raw_arg, last |-> oind - 1]
  ELSE LET arg == argv[oind + 1]
       IN IF arg = "--"
          THEN [error |-> FALSE, oind |-> oind + 1, raw_arg |-> raw_arg, last |-> oind]
          ELSE IF ~StartsWithDash(arg)
          THEN [error |-> FALSE, oind |-> oind, raw_arg |-> raw_arg, last |-> oind]
          ELSE IF arg = "-" \o "-no-frame-filters"
          THEN parse_options(argv, oind + 1, oind + 1)
          ELSE [error |-> TRUE, oind |-> oind, raw_arg |-> raw_arg, last |-> oind]

(***************************************************************************)
(* Results of a handler.                                                   *)
(***************************************************************************)
Result(status, msg, out, tr, reads, filter) ==
  [status |-> status, msg |-> msg, out |-> out, tr |-> tr, reads |-> reads,
   filter |-> filter]

Error(msg, reads) == Result("error", msg, <<>>, <<>>, reads, <<>>)

Crash(reads) == Result("crash", "SIGSEGV", <<>>, <<>>, reads, <<>>)

Idle == Result("idle", "", <<>>, <<>>, {}, <<>>)

(***************************************************************************)
(* The frame chain.  A frame is its position in stack, 1 the innermost; 0  *)
(* is the NULL frame.                                                      *)
(***************************************************************************)
get_current_frame == 1

get_prev_frame(stk, fi) == IF fi < Len(stk) THEN fi + 1 ELSE 0

frame_relative_level(fi) == fi - 1

\* print_frame_info (fi, 1, LOC_AND_ADDRESS, 0): the frame tuple of fi.
print_frame_info(fi) ==
  <<TupleBegin("frame"), FieldInt("level", frame_relative_level(fi)), End>>

\* position_frame that stays on the outermost frame instead of running off
\* the end of the chain.
RECURSIVE position_frame_clamped(_, _, _, _, _)
position_frame_clamped(stk, frame_low, i, fi, tr) ==
  IF fi # 0 /\ i < frame_low /\ get_prev_frame(stk, fi) # 0
  THEN position_frame_clamped(stk, frame_low, i + 1, get_prev_frame(stk, fi),
                              Append(tr, <<"get_prev_frame">>))
  ELSE [i |-> i, fi |-> fi, tr |-> tr]

\* for (i = 0, fi = get_current_frame (); fi && i < frame_low;
\*      i++, fi = get_prev_frame (fi));
RECURSIVE position_frame(_, _, _, _, _)
position_frame(stk, frame_low, i, fi, tr) ==
  IF fi # 0 /\ i < frame_low
  THEN position_frame(stk, frame_low, i + 1, get_prev_frame(stk, fi),
                      Append(tr, <<"get_prev_frame">>))
  ELSE [i |-> i, fi |-> fi, tr |-> tr]

\* The external frame filter: the call made and what the filter answers.
\* fo is the filter's answer, [result, emitted].
FilterCall(frame, flags, values, low, high) ==
  [frame |-> frame, flags |-> flags, values |-> values, low |-> low, high |-> high]

Filtered == <<"filtered">>

FilterOutcomes ==
  {[result |-> PY_BT_COMPLETED, emitted |-> <<Filtered>>],
   [result |-> PY_BT_NO_FILTERS, emitted |-> <<>>],
   [result |-> PY_BT_ERROR, emitted |-> <<>>],
   [result |-> PY_BT_ERROR, emitted |-> <<Filtered>>]}

NotAttempted == [result |-> PY_BT_ERROR, emitted |-> <<>>]

(***************************************************************************)
(* -stack-list-frames                                                      *)
(***************************************************************************)
\* print_frames with the window closed one frame early (i < frame_high).
RECURSIVE print_frames_short(_, _, _, _, _)
print_frames_short(stk, frame_high, i, fi, acc) ==
  IF fi # 0 /\ (i < frame_high \/ frame_high = -1)
  THEN print_frames_short(stk, frame_high, i + 1, get_prev_frame(stk, fi),
                          [out |-> acc.out \o print_frame_info(fi),
                           tr |-> acc.tr \o <<<<"QUIT">>,
                                              <<"frame", Itoa(frame_relative_level(fi))>>,
                                              <<"get_prev_frame">>>>])
  ELSE acc

\* print_frames that takes every negative high bound for "no bound".
RECURSIVE print_frames_negative_unbounded(_, _, _, _, _)
print_frames_negative_unbounded(stk, frame_high, i, fi, acc) ==
  IF fi # 0 /\ (i <= frame_high \/ frame_high < 0)
  THEN print_frames_negative_unbounded(
         stk, frame_high, i + 1, get_prev_frame(stk, fi),
         [out |-> acc.out \o print_frame_info(fi),
          tr |-> acc.tr \o <<<<"QUIT">>,
                             <<"frame", Itoa(frame_relative_level(fi))>>,
                             <<"get_prev_frame">>>>])
  ELSE acc

\* for (; fi && (i <= frame_high || frame_high == -1);
\*      i++, fi = get_prev_frame (fi)) { QUIT; print_frame_info (...); }
RECURSIVE print_frames(_, _, _, _, _)
print_frames(stk, frame_high, i, fi, acc) ==
  IF fi # 0 /\ (i <= frame_high \/ frame_high = -1)
  THEN print_frames(stk, frame_high, i + 1, get_prev_frame(stk, fi),
                    [out |-> acc.out \o print_frame_info(fi),
                     tr |-> acc.tr \o <<<<"QUIT">>,
                                        <<"frame", Itoa(frame_relative_level(fi))>>,
                                        <<"get_prev_frame">>>>])
  ELSE acc

NotEnoughFrames(cmd) == cmd \o ": Not enough frames in stack."

Usage(cmd) == cmd \o ": Usage"

\* py_frame_low that hands the low bound over as it is.
py_frame_low_same(frame_low) == frame_low

\* if (py_frame_low == -1) py_frame_low++;
py_frame_low(frame_low) == IF frame_low = -1 THEN frame_low + 1 ELSE frame_low

\* filter_attempted that does not look at the opt-out.
filter_attempted_always(raw_arg, ff) == ff # 0

\* if (! raw_arg && frame_filters)
filter_attempted(raw_arg, ff) == raw_arg = 0 /\ ff # 0

\* inbuilt_wanted without the fallback on PY_BT_NO_FILTERS.
inbuilt_wanted_no_fallback(raw_arg, ff, result) == ff = 0 \/ raw_arg # 0

\* inbuilt_wanted that runs the built-in path unless the filter failed.
inbuilt_wanted_unless_error(raw_arg, ff, result) ==
  ff = 0 \/ raw_arg # 0 \/ result # PY_BT_ERROR

\* inbuilt_wanted that runs the built-in path unless the filter completed.
inbuilt_wanted_unless_completed(raw_arg, ff, result) ==
  ff = 0 \/ raw_arg # 0 \/ result # PY_BT_COMPLETED

\* if (! frame_filters || raw_arg || result == PY_BT_NO_FILTERS)
inbuilt_wanted(raw_arg, ff, result) ==
  ff = 0 \/ raw_arg # 0 \/ result = PY_BT_NO_FILTERS

mi_cmd_stack_list_frames(argv, ff, stk, fo) ==
  LET argc == Len(argv)
      opts == parse_options(argv, 0, 0)
      oind == opts.oind
      raw_arg == opts.raw_arg
      reads0 == 0..opts.last
  IN IF opts.error THEN Error("-stack-list-frames: Unknown option", reads0)
     ELSE IF argc - oind # 0 /\ argc - oind # 2
     THEN Error(Usage("-stack-list-frames"), reads0)
     ELSE
       LET ranged == argc - oind = 2
           frame_low == IF ranged THEN atoi(argv[0 + oind + 1]) ELSE -1
           frame_high == IF ranged THEN atoi(argv[1 + oind + 1]) ELSE -1
           reads == reads0 \cup (IF ranged THEN {oind, oind + 1} ELSE {})
           pos == position_frame(stk, frame_low, 0, get_current_frame, <<>>)
       IN IF pos.fi = 0
          THEN Result("error", NotEnoughFrames("-stack-list-frames"), <<>>, pos.tr,
                      reads, <<>>)
          ELSE
            LET attempt == filter_attempted(raw_arg, ff)
                result == IF attempt THEN fo.result ELSE PY_BT_ERROR
                filter == IF attempt
                          THEN <<FilterCall(get_current_frame,
                                            {"PRINT_LEVEL", "PRINT_FRAME_INFO"},
                                            PRINT_NO_VALUES,
                                            py_frame_low(frame_low), frame_high)>>
                          ELSE <<>>
                opened == [out |-> <<ListBegin("stack")>>
                                   \o (IF attempt THEN fo.emitted ELSE <<>>),
                           tr |-> pos.tr
                                  \o (IF attempt THEN <<<<"apply_frame_filter">>>>
                                      ELSE <<>>)]
                printed == IF inbuilt_wanted(raw_arg, ff, result)
                           THEN print_frames(stk, frame_high, pos.i, pos.fi,
                                             [opened EXCEPT
                                                !.tr = Append(@, <<"inbuilt">>)])
                           ELSE opened
            IN Result("done", "", Append(printed.out, End), printed.tr, reads, filter)

(***************************************************************************)
(* -stack-info-depth                                                       *)
(***************************************************************************)
\* count_frames that counts one frame beyond the maximum (i <= frame_high).
RECURSIVE count_frames_inclusive(_, _, _, _, _)
count_frames_inclusive(stk, frame_high, i, fi, tr) ==
  IF fi # 0 /\ (i <= frame_high \/ frame_high = -1)
  THEN count_frames_inclusive(stk, frame_high, i + 1, get_prev_frame(stk, fi),
                              tr \o <<<<"QUIT">>, <<"get_prev_frame">>>>)
  ELSE [i |-> i, tr |-> tr]

\* for (i = 0, fi = get_current_frame ();
\*      fi && (i < frame_high || frame_high == -1);
\*      i++, fi = get_prev_frame (fi)) QUIT;
RECURSIVE count_frames(_, _, _, _, _)
count_frames(stk, frame_high, i, fi, tr) ==
  IF fi # 0 /\ (i < frame_high \/ frame_high = -1)
  THEN count_frames(stk, frame_high, i + 1, get_prev_frame(stk, fi),
                    tr \o <<<<"QUIT">>, <<"get_prev_frame">>>>)
  ELSE [i |-> i, tr |-> tr]

mi_cmd_stack_info_depth(argv, stk) ==
  LET argc == Len(argv)
  IN IF argc > 1 THEN Error(Usage("-stack-info-depth"), {})
     ELSE LET frame_high == IF argc = 1 THEN atoi(argv[0 + 1]) ELSE -1
              counted == count_frames(stk, frame_high, 0, get_current_frame, <<>>)
          IN Result("done", "", <<FieldInt("depth", counted.i)>>, counted.tr,
                    IF argc = 1 THEN {0} ELSE {}, <<>>)

(***************************************************************************)
(* -stack-list-locals and -stack-list-variables                            *)
(***************************************************************************)
mi_cmd_stack_list_locals(argv, ff, stk, sel, fo) ==
  LET argc == Len(argv)
      raw_arg == IF argc > 0 THEN parse_no_frames_option(argv[0 + 1]) ELSE 0
      reads0 == IF argc > 0 THEN {0} ELSE {}
  IN IF argc < 1 \/ argc > 2 \/ (argc = 2 /\ raw_arg = 0) \/ (argc = 1 /\ raw_arg # 0)
     THEN Error(Usage("-stack-list-locals"), reads0)
     ELSE
       LET frame == sel
           print_value == mi_parse_print_values(argv[raw_arg + 1])
           reads == reads0 \cup {raw_arg}
       IN IF print_value = NULL THEN Error(PrintValuesError, reads)
          ELSE
            LET attempt == filter_attempted(raw_arg, ff)
                result == IF attempt THEN fo.result ELSE PY_BT_ERROR
                filter == IF attempt
                          THEN <<FilterCall(frame, {"PRINT_LEVEL", "PRINT_LOCALS"},
                                            print_value, 0, 0)>>
                          ELSE <<>>
                out1 == IF attempt THEN fo.emitted ELSE <<>>
                tr1 == IF attempt THEN <<<<"apply_frame_filter">>>> ELSE <<>>
            IN IF inbuilt_wanted(raw_arg, ff, result)
               THEN LET listed == list_args_or_locals(locals, print_value, stk[frame])
                    IN Result(listed.status, "", out1 \o listed.out,
                              tr1 \o <<<<"inbuilt">>>> \o listed.tr, reads, filter)
               ELSE Result("done", "", out1, tr1, reads, filter)

mi_cmd_stack_list_variables(argv, ff, stk, sel, fo) ==
  LET argc == Len(argv)
      raw_arg == IF argc > 0 THEN parse_no_frames_option(argv[0 + 1]) ELSE 0
      reads0 == IF argc > 0 THEN {0} ELSE {}
  IN IF argc < 1 \/ argc > 2 \/ (argc = 2 /\ raw_arg = 0) \/ (argc = 1 /\ raw_arg # 0)
     THEN Error(Usage("-stack-list-variables"), reads0)
     ELSE
       LET frame == sel
           print_value == mi_parse_print_values(argv[raw_arg + 1])
           reads == reads0 \cup {raw_arg}
       IN IF print_value = NULL THEN Error(PrintValuesError, reads)
          ELSE
            LET attempt == filter_attempted(raw_arg, ff)
                result == IF attempt THEN fo.result ELSE PY_BT_ERROR
                filter == IF attempt
                          THEN <<FilterCall(frame,
                                            {"PRINT_LEVEL", "PRINT_ARGS", "PRINT_LOCALS"},
                                            print_value, 0, 0)>>
                          ELSE <<>>
                out1 == IF attempt THEN fo.emitted ELSE <<>>
                tr1 == IF attempt THEN <<<<"apply_frame_filter">>>> ELSE <<>>
            IN IF inbuilt_wanted(raw_arg, ff, result)
               THEN LET listed == list_args_or_locals(all, print_value, stk[frame])
                    IN Result(listed.status, "", out1 \o listed.out,
                              tr1 \o <<<<"inbuilt">>>> \o listed.tr, reads, filter)
               ELSE Result("done", "", out1, tr1, reads, filter)

(***************************************************************************)
(* -stack-list-arguments                                                   *)
(***************************************************************************)
\* for (; fi && (i <= frame_high || frame_high == -1);
\*      i++, fi = get_prev_frame (fi))
\*   { QUIT; frame tuple; level; list_args_or_locals (arguments, ...); }
RECURSIVE list_frames_args(_, _, _, _, _, _)
list_frames_args(stk, values, frame_high, i, fi, acc) ==
  IF acc.status = "done" /\ fi # 0 /\ (i <= frame_high \/ frame_high = -1)
  THEN LET listed == list_args_or_locals(arguments, values, stk[fi])
           tr1 == acc.tr \o <<<<"QUIT">>, <<"frame", Itoa(frame_relative_level(fi))>>>>
                         \o listed.tr
           out1 == acc.out \o <<TupleBegin("frame"), FieldInt("level", i)>> \o listed.out
       IN IF listed.status # "done"
          THEN [status |-> listed.status, out |-> out1, tr |-> tr1]
          ELSE list_frames_args(stk, values, frame_high, i + 1, get_prev_frame(stk, fi),
                                [status |-> "done", out |-> Append(out1, End),
                                 tr |-> Append(tr1, <<"get_prev_frame">>)])
  ELSE acc

mi_cmd_stack_list_args(argv, ff, stk, fo, oob) ==
  LET argc == Len(argv)
      raw_arg == IF argc > 0 THEN parse_no_frames_option(argv[0 + 1]) ELSE 0
      reads0 == IF argc > 0 THEN {0} ELSE {}
  IN IF argc < 1 \/ (argc > 3 /\ raw_arg = 0) \/ (argc = 2 /\ raw_arg = 0)
     THEN Error(Usage("-stack-list-arguments"), reads0)
     ELSE
       LET ranged == argc >= 3
           low_tok == Arg(argv, 1 + raw_arg, oob)
           high_tok == Arg(argv, 2 + raw_arg, oob)
           reads1 == reads0 \cup (IF ranged THEN {1 + raw_arg, 2 + raw_arg} ELSE {})
           values_tok == Arg(argv, raw_arg, oob)
           reads == reads1 \cup {raw_arg}
       IN IF ranged /\ (low_tok = NULL \/ high_tok = NULL) THEN Crash(reads1)
          ELSE IF values_tok = NULL THEN Crash(reads)
          ELSE IF mi_parse_print_values(values_tok) = NULL
          THEN Error(PrintValuesError, reads)
          ELSE
            LET frame_low == IF ranged THEN atoi(low_tok) ELSE -1
                frame_high == IF ranged THEN atoi(high_tok) ELSE -1
                values == mi_parse_print_values(values_tok)
                pos == position_frame(stk, frame_low, 0, get_current_frame, <<>>)
            IN IF pos.fi = 0
               THEN Result("error", NotEnoughFrames("-stack-list-arguments"), <<>>,
                           pos.tr, reads, <<>>)
               ELSE
                 LET attempt == filter_attempted(raw_arg, ff)
                     result == IF attempt THEN fo.result ELSE PY_BT_ERROR
                     filter == IF attempt
                               THEN <<FilterCall(get_current_frame,
                                                 {"PRINT_LEVEL", "PRINT_ARGS"}, values,
                                                 py_frame_low(frame_low), frame_high)>>
                               ELSE <<>>
                     opened == [status |-> "done",
                                out |-> <<ListBegin("stack-args")>>
                                        \o (IF attempt THEN fo.emitted ELSE <<>>),
                                tr |-> pos.tr
                                       \o (IF attempt THEN <<<<"apply_frame_filter">>>>
                                           ELSE <<>>)]
                     printed == IF inbuilt_wanted(raw_arg, ff, result)
                                THEN list_frames_args(stk, values, frame_high, pos.i,
                                                      pos.fi,
                                                      [opened EXCEPT
                                                         !.tr = Append(@, <<"inbuilt">>)])
                                ELSE opened
                 IN Result(printed.status, "", Append(printed.out, End), printed.tr,
                           reads, filter)

(***************************************************************************)
(* -enable-frame-filters, -stack-select-frame, -stack-info-frame           *)
(***************************************************************************)
\* mi_cmd_enable_frame_filters without the check of argc.
mi_cmd_enable_frame_filters_any(argv) == Result("done", "", <<>>, <<>>, {}, <<>>)

mi_cmd_enable_frame_filters(argv) ==
  IF Len(argv) # 0 THEN Error("-enable-frame-filters: no arguments allowed", {})
  ELSE Result("done", "", <<>>, <<>>, {}, <<>>)

\* select_frame_command (argv[0], 1): the level selected, -1 when the frame
\* specification names no frame of the stack.
select_frame_command(stk, tok) ==
  IF tok \in {"0", "1", "2", "3"} /\ atoi(tok) < Len(stk) THEN atoi(tok) ELSE -1

mi_cmd_stack_select_frame(argv, stk) ==
  IF Len(argv) = 0 \/ Len(argv) > 1 THEN Error(Usage("-stack-select-frame"), {})
  ELSE IF select_frame_command(stk, argv[0 + 1]) = -1
  THEN Error("No frame at that level", {0})
  ELSE Result("done", "", <<>>, <<<<"select_frame_command">>>>, {0}, <<>>)

mi_cmd_stack_info_frame(argv, sel) ==
  IF Len(argv) > 0 THEN Error("-stack-info-frame: No arguments allowed", {})
  ELSE Result("done", "", print_frame_info(sel), <<>>, {}, <<>>)

(***************************************************************************)
(* Stacks.  The frames a stack is made of: a function with an argument     *)
(* and an array local, enclosed by a file-level block; a function stopped  *)
(* in an inner block, with unreadable variables, an aggregate local, an    *)
(* argument that has both a value and an entry value and an argument that  *)
(* has a register copy of the same name in its block.                      *)
(***************************************************************************)
Sym(name, class, is_argument, type, a, e) ==
  [name |-> name, class |-> class, is_argument |-> is_argument, type |-> type,
   fetch |-> [a |-> a, e |-> e]]

Block(function, syms) == [function |-> function, syms |-> syms]

FileBlock == Block(FALSE, <<Sym("g", "LOC_STATIC", FALSE, "T_INT", "val", "none")>>)

FrameMain ==
  [blocks |->
     <<Block(TRUE, <<Sym("argc", "LOC_ARG", TRUE, "T_INT", "val", "none"),
                     Sym("buf", "LOC_LOCAL", FALSE, "T_ARRAY", "val", "none")>>),
       FileBlock>>]

FrameWork ==
  [blocks |->
     <<Block(FALSE, <<Sym("bad", "LOC_COMPUTED", FALSE, "T_INT", "error", "none"),
                      Sym("s", "LOC_LOCAL", FALSE, "T_TYPEDEF_STRUCT", "unprintable",
                          "none")>>),
       Block(TRUE, <<Sym("p", "LOC_ARG", TRUE, "T_TYPEDEF_INT", "error", "none"),
                     Sym("q", "LOC_REGISTER", TRUE, "T_INT", "val", "val"),
                     Sym("r", "LOC_ARG", TRUE, "T_INT", "error", "none"),
                     Sym("r", "LOC_REGISTER", FALSE, "T_INT", "val", "none"),
                     Sym("L", "LOC_LABEL", FALSE, "T_INT", "val", "none")>>),
       FileBlock>>]

FrameShapes == {FrameMain, FrameWork}

\* The outermost frame of a stack is main's.
Stacks ==
  UNION {{st \in [1..d -> FrameShapes] : st[d] = FrameMain} : d \in 1..MaxDepth}

(***************************************************************************)
(* Requests.                                                               *)
(***************************************************************************)
Min(a, b) == IF a < b THEN a ELSE b

Argvs(n) == UNION {[1..k -> Tokens] : k \in 0..Min(n, MaxArgc)}

Request(cmd, argv, fo, oob) == [cmd |-> cmd, argv |-> argv, fo |-> fo, oob |-> oob]

NoRequest == Request("", <<>>, NotAttempted, NULL)

ListFrames == "-stack-list-frames"

ListArgs == "-stack-list-arguments"

ListLocals == "-stack-list-locals"

ListVariables == "-stack-list-variables"

InfoDepth == "-stack-info-depth"

EnableFilters == "-enable-frame-filters"

SelectFrame == "-stack-select-frame"

InfoFrame == "-stack-info-frame"

ListRequests == {ListFrames, ListArgs, ListLocals, ListVariables}

\* The handler of a command as a function of everything it reads.
Handler(cmd, argv, ff, stk, sel, fo, oob) ==
  CASE cmd = ListFrames -> mi_cmd_stack_list_frames(argv, ff, stk, fo)
    [] cmd = ListArgs -> mi_cmd_stack_list_args(argv, ff, stk, fo, oob)
    [] cmd = ListLocals -> mi_cmd_stack_list_locals(argv, ff, stk, sel, fo)
    [] cmd = ListVariables -> mi_cmd_stack_list_variables(argv, ff, stk, sel, fo)
    [] cmd = InfoDepth -> mi_cmd_stack_info_depth(argv, stk)
    [] cmd = EnableFilters -> mi_cmd_enable_frame_filters(argv)
    [] cmd = SelectFrame -> mi_cmd_stack_select_frame(argv, stk)
    [] cmd = InfoFrame -> mi_cmd_stack_info_frame(argv, sel)

\* The contents of argv[argc] matter only to a handler that reads the slot.
\* h is the handler as a function of the filter's answer and of that slot.
OobChoices(h, argv) ==
  IF \E k \in h[NotAttempted, NULL].reads : k >= Len(argv) THEN OobSlots ELSE {NULL}

\* The filter's answer matters only to a handler that calls the filter.
FilterChoices(h, oob) ==
  IF h[NotAttempted, oob].filter = <<>> THEN {NotAttempted} ELSE FilterOutcomes

Reply(cmd, argv, h) ==
  \E oob \in OobChoices(h, argv) :
    \E fo \in FilterChoices(h, oob) :
      /\ req' = Request(cmd, argv, fo, oob)
      /\ res' = h[fo, oob]
      /\ pc' = "replied"

Init ==
  /\ frame_filters = 0
  /\ stack \in Stacks
  /\ selected = get_current_frame
  /\ pc = "prompt"
  /\ req = NoRequest
  /\ res = Idle

EnableFrameFilters ==
  /\ pc = "prompt"
  /\ \E argv \in Argvs(1) :
       /\ Reply(EnableFilters, argv,
                [fo \in FilterOutcomes, oob \in OobSlots |->
                   mi_cmd_enable_frame_filters(argv)])
       /\ frame_filters' = IF mi_cmd_enable_frame_filters(argv).status = "done"
                           THEN 1 ELSE frame_filters
  /\ UNCHANGED <<stack, selected>>

StackListFrames ==
  /\ pc = "prompt"
  /\ \E argv \in Argvs(MaxArgc) :
       Reply(ListFrames, argv,
             [fo \in FilterOutcomes, oob \in OobSlots |->
                mi_cmd_stack_list_frames(argv, frame_filters, stack, fo)])
  /\ UNCHANGED <<frame_filters, stack, selected>>

StackInfoDepth ==
  /\ pc = "prompt"
  /\ \E argv \in Argvs(2) :
       Reply(InfoDepth, argv,
             [fo \in FilterOutcomes, oob \in OobSlots |->
                mi_cmd_stack_info_depth(argv, stack)])
  /\ UNCHANGED <<frame_filters, stack, selected>>

StackListLocals ==
  /\ pc = "prompt"
  /\ \E argv \in Argvs(3) :
       Reply(ListLocals, argv,
             [fo \in FilterOutcomes, oob \in OobSlots |->
                mi_cmd_stack_list_locals(argv, frame_filters, stack, selected, fo)])
  /\ UNCHANGED <<frame_filters, stack, selected>>

StackListArgs ==
  /\ pc = "prompt"
  /\ \E argv \in Argvs(MaxArgc) :
       Reply(ListArgs, argv,
             [fo \in FilterOutcomes, oob \in OobSlots |->
                mi_cmd_stack_list_args(argv, frame_filters, stack, fo, oob)])
  /\ UNCHANGED <<frame_filters, stack, selected>>

StackListVariables ==
  /\ pc = "prompt"
  /\ \E argv \in Argvs(3) :
       Reply(ListVariables, argv,
             [fo \in FilterOutcomes, oob \in OobSlots |->
                mi_cmd_stack_list_variables(argv, frame_filters, stack, selected, fo)])
  /\ UNCHANGED <<frame_filters, stack, selected>>

StackSelectFrame ==
  /\ pc = "prompt"
  /\ \E argv \in Argvs(2) :
       /\ Reply(SelectFrame, argv,
                [fo \in FilterOutcomes, oob \in OobSlots |->
                   mi_cmd_stack_select_frame(argv, stack)])
       /\ selected' = IF mi_cmd_stack_select_frame(argv, stack).status = "done"
                      THEN select_frame_command(stack, argv[1]) + 1 ELSE selected
  /\ UNCHANGED <<frame_filters, stack>>

StackInfoFrame ==
  /\ pc = "prompt"
  /\ \E argv \in Argvs(1) :
       Reply(InfoFrame, argv,
             [fo \in FilterOutcomes, oob \in OobSlots |->
                mi_cmd_stack_info_frame(argv, selected)])
  /\ UNCHANGED <<frame_filters, stack, selected>>

\* The command loop takes the reply and prompts for the next command.
Prompt ==
  /\ pc = "replied"
  /\ pc' = "prompt"
  /\ req' = NoRequest
  /\ res' = Idle
  /\ UNCHANGED <<frame_filters, stack, selected>>

Next ==
  \/ EnableFrameFilters
  \/ StackListFrames
  \/ StackInfoDepth
  \/ StackListLocals
  \/ StackListArgs
  \/ StackListVariables
  \/ StackSelectFrame
  \/ StackInfoFrame
  \/ Prompt

Spec == Init /\ [][Next]_vars

(***************************************************************************)
(* Windows of frames: -stack-list-frames LOW HIGH and -stack-list-arguments *)
(* PRINT_VALUES LOW HIGH for every pair of bounds, in and out of range.    *)
(***************************************************************************)
WindowTokens == {"0", "1", "2", "3", "-1", "-2"}

WindowListFrames ==
  /\ pc = "prompt"
  /\ \E lo \in WindowTokens, hi \in WindowTokens :
       Reply(ListFrames, <<lo, hi>>,
             [fo \in FilterOutcomes, oob \in OobSlots |->
                mi_cmd_stack_list_frames(<<lo, hi>>, frame_filters, stack, fo)])
  /\ UNCHANGED <<frame_filters, stack, selected>>

WindowListArgs ==
  /\ pc = "prompt"
  /\ \E pv \in {"0", "1", "2"}, lo \in WindowTokens, hi \in WindowTokens :
       Reply(ListArgs, <<pv, lo, hi>>,
             [fo \in FilterOutcomes, oob \in OobSlots |->
                mi_cmd_stack_list_args(<<pv, lo, hi>>, frame_filters, stack, fo, oob)])
  /\ UNCHANGED <<frame_filters, stack, selected>>

NextWindow ==
  \/ EnableFrameFilters
  \/ WindowListFrames
  \/ WindowListArgs
  \/ Prompt

SpecWindow == Init /\ [][NextWindow]_vars

(***************************************************************************)
(* The variable listing on its own: list_args_or_locals applied to one     *)
(* frame, for every symbol alone in a function's block and for every chain *)
(* of at most MaxBlocks blocks of at most MaxSyms symbols.                 *)
(***************************************************************************)
Fetches ==
  {f \in [a : {"val", "unprintable", "error", "none"}, e : {"none", "val", "error"}] :
     ~(f.a = "none" /\ f.e = "none")}

AnySymbol ==
  [name : {"x"}, class : AddressClasses, is_argument : BOOLEAN, type : Types,
   fetch : Fetches]

PoolSymbols ==
  {Sym("a", "LOC_ARG", TRUE, "T_INT", "error", "none"),
   Sym("v", "LOC_LOCAL", FALSE, "T_STRUCT", "val", "none")}

PoolBlocks ==
  {Block(f, syms) : f \in BOOLEAN,
                    syms \in UNION {[1..n -> PoolSymbols] : n \in 0..MaxSyms}}

ListedFrames ==
  {[blocks |-> <<Block(TRUE, <<sym>>)>>] : sym \in AnySymbol}
  \cup {[blocks |-> chain] : chain \in UNION {[1..n -> PoolBlocks] : n \in 0..MaxBlocks}}

InitList ==
  /\ frame_filters = 0
  /\ stack \in {<<fr>> : fr \in ListedFrames}
  /\ selected = get_current_frame
  /\ pc = "prompt"
  /\ req = NoRequest
  /\ res = Idle

ListArgsOrLocals ==
  /\ pc = "prompt"
  /\ \E what \in what_to_list, values \in print_values :
       LET listed == list_args_or_locals(what, values, stack[selected])
       IN /\ req' = Request("list_args_or_locals", <<what, values>>, NotAttempted, NULL)
          /\ res' = Result(listed.status, "", listed.out, listed.tr, {}, <<>>)
  /\ pc' = "replied"
  /\ UNCHANGED <<frame_filters, stack, selected>>

NextList == ListArgsOrLocals

SpecList == InitList /\ [][NextList]_vars

(***************************************************************************)
(* Properties.  They speak of the request just answered (pc = "replied"):  *)
(* req is the request, res what the handler did.                           *)
(***************************************************************************)
\* The request as its documentation reads it: the opt-out token, then the rest.
OptOut == Len(req.argv) > 0 /\ req.argv[1] = NFF

Body == IF OptOut THEN Tail(req.argv) ELSE req.argv

Numerals == {"0", "1", "2", "3"}

NumberOf(tok) == CHOOSE n \in 0..3 : Itoa(n) = tok

ValuesTokens == {"0", "1", "2"}

\* A request for a window of frames: [--no-frame-filters] [PRINT_VALUES] LOW HIGH.
Windowed ==
  \/ /\ req.cmd = ListFrames
     /\ Len(Body) = 2
     /\ Body[1] \in Numerals /\ Body[2] \in Numerals
  \/ /\ req.cmd = ListArgs
     /\ Len(Body) = 3
     /\ Body[1] \in ValuesTokens
     /\ Body[2] \in Numerals /\ Body[3] \in Numerals

Low == NumberOf(Body[Len(Body) - 1])

High == NumberOf(Body[Len(Body)])

\* The built-in path is the one to run: filters are off, or the request opts
\* out, or the filter answers that no filter is registered.
BuiltinCase ==
  frame_filters = 0 \/ OptOut \/ req.fo.result = PY_BT_NO_FILTERS

Ran(call) == \E k \in 1..Len(res.tr) : res.tr[k][1] = call

IsField(e, name) == Len(e) = 3 /\ e[1] = "field" /\ e[2] = name

\* The texts of the fields called name, in the order written.
FieldsOf(out, name) ==
  LET sel == SelectSeq(out, LAMBDA e : IsField(e, name))
  IN [k \in 1..Len(sel) |-> sel[k][3]]

\* The levels of the frames the built-in loop stood on, in order.
FramesVisited(tr) ==
  LET sel == SelectSeq(tr, LAMBDA e : e[1] = "frame")
  IN [k \in 1..Len(sel) |-> sel[k][2]]

Depths(low, high) == [k \in 1..(high - low + 1) |-> Itoa(low + k - 1)]

\* What -stack-list-arguments is to write for the frames at depths low..high.
RECURSIVE ArgsOfFrames(_, _, _, _)
ArgsOfFrames(stk, values, low, high) ==
  IF low > high THEN <<>>
  ELSE <<TupleBegin("frame"), Field("level", Itoa(low))>>
       \o list_args_or_locals(arguments, values, stk[low + 1]).out
       \o <<End>>
       \o ArgsOfFrames(stk, values, low + 1, high)

\* C1: in the built-in path of -stack-list-frames and -stack-list-arguments a
\* window (low, high) with 0 <= low <= high < depth yields exactly the frames
\* at depths low, low + 1, ..., high, in that order, each with its depth as
\* its level, and nothing deeper than high.
C1_WindowExact ==
  (pc = "replied" /\ Windowed /\ BuiltinCase /\ Low <= High /\ High < Len(stack))
  => /\ res.status = "done"
     /\ FieldsOf(res.out, "level") = Depths(Low, High)
     /\ FramesVisited(res.tr) = Depths(Low, High)
     /\ Len(SelectSeq(res.out, LAMBDA e : e = TupleBegin("frame"))) = High - Low + 1
     /\ req.cmd = ListArgs
        => res.out = <<ListBegin("stack-args")>>
                     \o ArgsOfFrames(stack, mi_parse_print_values(Body[1]), Low, High)
                     \o <<End>>

\* Three frames, window (0, 1): depths 0 and 1 are listed, depth 2 is not.
C1_Witness ==
  /\ pc = "replied" /\ Windowed /\ BuiltinCase
  /\ Len(stack) = 3 /\ Low = 0 /\ High = 1
  /\ FieldsOf(res.out, "level") = <<"0", "1">>

NoOutput == res.out = <<>> /\ res.filter = <<>> /\ ~Ran("apply_frame_filter")
            /\ ~Ran("inbuilt") /\ ~Ran("frame")

\* C2: a window whose low bound is at or beyond the depth of the stack fails
\* with "Not enough frames in stack" before the list is opened, the filter
\* called or a frame printed, whatever frame_filters and the opt-out are.
C2_NotEnoughFrames ==
  (pc = "replied" /\ Windowed /\ Low >= Len(stack))
  => /\ res.status = "error"
     /\ res.msg = req.cmd \o ": Not enough frames in stack."
     /\ NoOutput

C2_Witness ==
  /\ pc = "replied" /\ Windowed /\ Low >= Len(stack) /\ Low <= High
  /\ frame_filters = 1 /\ ~OptOut
  /\ res.status = "error"

FilterCalled == pc = "replied" /\ req.cmd \in ListRequests /\ res.filter # <<>>

\* C3: when the filter is called and answers PY_BT_NO_FILTERS the request
\* writes what it writes with frame filters disabled, and what it writes with
\* the opt-out token given.
C3_NoFiltersSameAsBuiltin ==
  (FilterCalled /\ req.fo.result = PY_BT_NO_FILTERS)
  => LET off == Handler(req.cmd, req.argv, 0, stack, selected, NotAttempted, req.oob)
         opt == Handler(req.cmd, <<NFF>> \o req.argv, frame_filters, stack, selected,
                        NotAttempted, req.oob)
     IN /\ res.out = off.out /\ res.status = off.status
        /\ res.out = opt.out /\ res.status = opt.status

C3_Witness ==
  /\ FilterCalled /\ req.fo.result = PY_BT_NO_FILTERS
  /\ req.cmd = ListVariables
  /\ \E k \in 1..Len(res.out) : IsField(res.out[k], "value")

\* What a request writes around the filter's own output.
Wrapped(cmd, emitted) ==
  CASE cmd = ListFrames -> <<ListBegin("stack")>> \o emitted \o <<End>>
    [] cmd = ListArgs -> <<ListBegin("stack-args")>> \o emitted \o <<End>>
    [] OTHER -> emitted

BuiltinRan == Ran("inbuilt") \/ Ran("frame") \/ Ran("list_args_or_locals")

\* C4: when the filter is called and answers PY_BT_COMPLETED the built-in
\* path does not run and the request is done with the filter's output alone.
C4_CompletedSkipsBuiltin ==
  (FilterCalled /\ req.fo.result = PY_BT_COMPLETED)
  => /\ ~BuiltinRan
     /\ res.status = "done"
     /\ res.out = Wrapped(req.cmd, req.fo.emitted)

C4_Witness ==
  /\ FilterCalled /\ req.fo.result = PY_BT_COMPLETED
  /\ req.cmd = ListArgs
  /\ res.out = <<ListBegin("stack-args"), Filtered, End>>

\* C5: when the filter is called and answers PY_BT_ERROR the request is
\* reported to its caller as a failure.
C5_ErrorSurfaced ==
  (FilterCalled /\ req.fo.result = PY_BT_ERROR) => res.status = "error"

\* C6: when the filter is called and answers PY_BT_ERROR the built-in path
\* is not run in its place: no frame and no variable is written by it.
C6_ErrorNoBuiltin ==
  (FilterCalled /\ req.fo.result = PY_BT_ERROR)
  => /\ ~BuiltinRan
     /\ res.out = Wrapped(req.cmd, req.fo.emitted)

C6_Witness ==
  /\ FilterCalled /\ req.fo.result = PY_BT_ERROR
  /\ req.cmd = ListFrames
  /\ res.out = <<ListBegin("stack"), Filtered, End>>

\* The argument vectors a command documents: the opt-out token first, if at
\* all, then the arguments in the number the usage message gives.  An option
\* parser takes a repeated option, so -stack-list-frames may repeat the token.
RECURSIVE Operands(_)
Operands(argv) == IF Len(argv) > 0 /\ argv[1] = NFF THEN Operands(Tail(argv)) ELSE argv

AcceptedShape ==
  CASE req.cmd = ListFrames -> Len(Operands(req.argv)) \in {0, 2}
    [] req.cmd = ListArgs -> Len(Body) \in {1, 3}
    [] req.cmd \in {ListLocals, ListVariables} -> Len(Body) = 1
    [] req.cmd = InfoDepth -> Len(req.argv) <= 1

\* C7: an argument vector that is not of the documented shape fails with an
\* error before any frame is walked, the filter called or anything written,
\* and no request reads argv at or beyond argc.
C7_UsageErrorFirst ==
  (pc = "replied" /\ req.cmd \in ListRequests \cup {InfoDepth})
  => /\ ~AcceptedShape
        => res.status = "error" /\ res.out = <<>> /\ res.tr = <<>> /\ res.filter = <<>>
     /\ \A k \in res.reads : k < Len(req.argv)

VariableRequests == {ListArgs, ListLocals, ListVariables}

\* The stack with every unreadable or unprintable variable made readable.
HealSym(sym) ==
  [sym EXCEPT !.fetch = [a |-> IF @.a \in {"error", "unprintable"} THEN "val" ELSE @.a,
                         e |-> IF @.e = "error" THEN "val" ELSE @.e]]

Heal(stk) ==
  [f \in DOMAIN stk |->
     [blocks |->
        [b \in DOMAIN stk[f].blocks |->
           [function |-> stk[f].blocks[b].function,
            syms |-> [k \in DOMAIN stk[f].blocks[b].syms |->
                        HealSym(stk[f].blocks[b].syms[k])]]]]]

Mask(out) ==
  [k \in 1..Len(out) |-> IF IsField(out[k], "value") THEN Field("value", "*") ELSE out[k]]

IsErrorValue(e) ==
  /\ IsField(e, "value")
  /\ e[3] \in {"<error reading variable: Cannot access memory>",
               "<error reading variable: value is not printable>"}

\* The reads and prints that failed among the values read_frame_arg returned.
RECURSIVE Failures(_)
Failures(tr) ==
  IF tr = <<>> THEN 0
  ELSE (IF Head(tr)[1] = "read_frame_arg"
        THEN (IF Head(tr)[3] \in {"error", "unprintable"} THEN 1 ELSE 0)
             + (IF Head(tr)[4] = "error" THEN 1 ELSE 0)
        ELSE 0)
       + Failures(Tail(tr))

\* C8: a failing read or print of a variable costs the listing nothing but
\* that variable's value: the request is done, every failure is written as
\* one value "<error reading variable: ...>", and apart from the values that
\* failed the output is what it is when every variable is readable.
C8_FetchFailureIsolated ==
  (pc = "replied" /\ req.cmd \in VariableRequests /\ Ran("list_args_or_locals"))
  => LET healed == Handler(req.cmd, req.argv, frame_filters, Heal(stack), selected,
                           req.fo, req.oob)
     IN /\ res.status = "done"
        /\ Mask(res.out) = Mask(healed.out)
        /\ \A k \in 1..Len(res.out) :
             res.out[k] # healed.out[k]
             => IsErrorValue(res.out[k]) /\ ~IsErrorValue(healed.out[k])
        /\ Len(SelectSeq(res.out, IsErrorValue)) = Failures(res.tr)

\* An unreadable argument, then a readable argument of the same frame, then
\* an argument of the next frame.
C8_Witness ==
  /\ pc = "replied" /\ req.cmd = ListArgs
  /\ \E i, j, k \in 1..Len(res.out) :
       /\ i < j /\ j < k
       /\ res.out[i] = Field("value", "<error reading variable: Cannot access memory>")
       /\ res.out[j] = Field("value", "value of q")
       /\ res.out[k] = Field("value", "value of argc")

\* The blocks the listing is to visit: up to the function's block, included.
Visited(fr) ==
  LET fn == {b \in 1..Len(fr.blocks) : fr.blocks[b].function}
  IN IF fn = {} THEN Len(fr.blocks) ELSE CHOOSE b \in fn : \A c \in fn : b <= c

\* The symbols of the visited blocks that qualify for the listing, in order.
RECURSIVE QualifyingFrom(_, _, _)
QualifyingFrom(fr, what, b) ==
  IF b > Visited(fr) THEN <<>>
  ELSE SelectSeq(fr.blocks[b].syms, LAMBDA sym : print_me(sym, what))
       \o QualifyingFrom(fr, what, b + 1)

Qualifying == QualifyingFrom(stack[selected], req.argv[1], 1)

Listed(values) ==
  pc = "replied" /\ req.cmd = "list_args_or_locals" /\ req.argv[2] = values

\* C9: under PRINT_NO_VALUES no value is read and no record has a value;
\* every qualifying symbol has exactly one record, under its own name.
C9_NoValues ==
  Listed(PRINT_NO_VALUES)
  => /\ res.status = "done"
     /\ ~Ran("read_frame_arg")
     /\ FieldsOf(res.out, "value") = <<>>
     /\ FieldsOf(res.out, "name") = [k \in 1..Len(Qualifying) |-> Qualifying[k].name]

\* A variable that has an entry value and no readable value is listed once.
C9_Witness ==
  /\ Listed(PRINT_NO_VALUES)
  /\ Len(Qualifying) = 1
  /\ Qualifying[1].fetch = [a |-> "error", e |-> "val"]
  /\ FieldsOf(res.out, "name") = <<"x">>

AggregateTypes == {"T_ARRAY", "T_STRUCT", "T_UNION", "T_TYPEDEF_STRUCT"}

AggregateTexts == {"int [2]", "struct s", "union u", "mystruct"}

\* The records of a listing: where each tuple begins, and where it ends.
RecordStarts == {k \in 1..Len(res.out) : res.out[k] = TupleBegin("")}

RecordEnd(k) == CHOOSE e \in k..Len(res.out) :
                  /\ res.out[e] = End
                  /\ \A j \in k..(e - 1) : res.out[j] # End

RecordFields(k, name) ==
  {j \in (k + 1)..(RecordEnd(k) - 1) : IsField(res.out[j], name)}

\* C10: under PRINT_SIMPLE_VALUES every record has its type; a qualifying
\* symbol whose type is, behind its typedefs, an array, a struct or a union
\* has one record without a value and is not read; any other qualifying
\* symbol is read and each of its records has a value.
C10_SimpleValues ==
  Listed(PRINT_SIMPLE_VALUES)
  => /\ res.status = "done"
     /\ \A k \in RecordStarts :
          /\ Cardinality(RecordFields(k, "type")) = 1
          /\ Cardinality(RecordFields(k, "name")) = 1
          /\ \A t \in RecordFields(k, "type") :
               IF res.out[t][3] \in AggregateTexts
               THEN RecordFields(k, "value") = {}
               ELSE Cardinality(RecordFields(k, "value")) = 1
     /\ Len(SelectSeq(res.tr, LAMBDA e : e[1] = "read_frame_arg"))
        = Len(SelectSeq(Qualifying, LAMBDA sym : sym.type \notin AggregateTypes))
     /\ Len(SelectSeq(FieldsOf(res.out, "type"), LAMBDA t : t \in AggregateTexts))
        = Len(SelectSeq(Qualifying, LAMBDA sym : sym.type \in AggregateTypes))

\* A local whose type is a typedef of a struct: name and type, no value.
C10_Witness ==
  /\ Listed(PRINT_SIMPLE_VALUES)
  /\ res.out = <<ListBegin("locals"), TupleBegin(""), Field("name", "x"),
                 Field("type", "mystruct"), End, End>>

\* A listing of a frame whose one block holds one symbol.
OneSymbol ==
  /\ pc = "replied" /\ req.cmd = "list_args_or_locals"
  /\ Len(stack[selected].blocks) = 1
  /\ Len(stack[selected].blocks[1].syms) = 1

TheSymbol == stack[selected].blocks[1].syms[1]

\* Whether the listing of the selected frame under what names a variable.
Shown(what) ==
  FieldsOf(list_args_or_locals(what, req.argv[2], stack[selected]).out, "name") # <<>>

\* The inclusion table: storage class, argument role and what, nothing else.
Included(class, role, what) ==
  /\ class \in {"LOC_ARG", "LOC_REF_ARG", "LOC_REGPARM_ADDR", "LOC_LOCAL", "LOC_STATIC",
                "LOC_REGISTER", "LOC_COMPUTED"}
  /\ \/ what = all
     \/ what = locals /\ ~role
     \/ what = arguments /\ role

\* C11: whether a symbol is listed depends on its storage class, its argument
\* role and what only: the eight excluded classes are never listed, under all
\* every candidate is listed whatever its role, and a candidate is listed
\* under exactly one of locals and arguments, arguments iff its role says so.
C11_InclusionDecision ==
  OneSymbol
  => /\ (FieldsOf(res.out, "name") # <<>>)
        <=> Included(TheSymbol.class, TheSymbol.is_argument, req.argv[1])
     /\ TheSymbol.class \in ExcludedClasses
        => ~Shown(all) /\ ~Shown(locals) /\ ~Shown(arguments)
     /\ TheSymbol.class \in CandidateClasses
        => /\ Shown(all)
           /\ Shown(locals) # Shown(arguments)
           /\ Shown(arguments) <=> TheSymbol.is_argument

\* A register variable that is an argument, listed among the arguments.
C11_Witness ==
  /\ OneSymbol
  /\ TheSymbol.class = "LOC_REGISTER" /\ TheSymbol.is_argument
  /\ req.argv[1] = arguments
  /\ FieldsOf(res.out, "name") # <<>>

\* C12: -stack-info-depth answers the depth of the stack when no maximum is
\* given and the smaller of the maximum and the depth when a maximum >= 0 is
\* given; it never calls the frame filter, whether filters are enabled or not.
C12_Depth ==
  (pc = "replied" /\ req.cmd = InfoDepth)
  => /\ res.filter = <<>> /\ ~Ran("apply_frame_filter")
     /\ req.argv = <<>>
        => res.status = "done" /\ res.out = <<Field("depth", Itoa(Len(stack)))>>
     /\ (Len(req.argv) = 1 /\ req.argv[1] \in Numerals)
        => /\ res.status = "done"
           /\ res.out = <<Field("depth", Itoa(Min(NumberOf(req.argv[1]), Len(stack))))>>

\* Filters enabled, three frames, a maximum of two: the answer is 2.
C12_Witness ==
  /\ pc = "replied" /\ req.cmd = InfoDepth
  /\ frame_filters = 1
  /\ Len(stack) = 3 /\ req.argv = <<"2">>
  /\ res.out = <<Field("depth", "2")>>

\* The positions of the trace at which the walk stepped to the previous frame.
Steps == {k \in 1..Len(res.tr) : res.tr[k] = <<"get_prev_frame">>}

\* C13: every walk of the frame chain passes QUIT at least once per frame
\* advanced: between any two steps to a previous frame there is a QUIT.
C13_QuitPerFrame ==
  pc = "replied"
  => \A j \in Steps : \A k \in Steps :
       j < k => \E m \in (j + 1)..(k - 1) : res.tr[m] = <<"QUIT">>

\* What a step may do to the flag: raise it from 0 to 1, and only in answering
\* -enable-frame-filters without arguments; with arguments the request fails
\* and the flag is as it was; without arguments the flag is set afterwards.
FlagStep ==
  /\ frame_filters' # frame_filters
     => /\ frame_filters = 0 /\ frame_filters' = 1
        /\ req'.cmd = EnableFilters /\ req'.argv = <<>> /\ res'.status = "done"
  /\ (pc' = "replied" /\ req'.cmd = EnableFilters /\ req'.argv # <<>>)
     => res'.status = "error" /\ frame_filters' = frame_filters
  /\ (pc' = "replied" /\ req'.cmd = EnableFilters /\ req'.argv = <<>>)
     => res'.status = "done" /\ frame_filters' = 1

\* C14: the flag starts at 0, is set only by a successful -enable-frame-filters
\* and is never cleared, whatever requests follow and whether they fail.
C14_FlagMonotonic == frame_filters = 0 /\ [][FlagStep]_vars

\* Filters enabled, and an -enable-frame-filters with an argument has failed.
C14_Witness ==
  /\ pc = "replied" /\ req.cmd = EnableFilters /\ req.argv # <<>>
  /\ res.status = "error"
  /\ frame_filters = 1

\* How many times call appears in the trace of the request.
Count(call) == Cardinality({k \in 1..Len(res.tr) : res.tr[k][1] = call})

\* C15: a list request calls the frame filter only when filters are enabled
\* and the request does not open with --no-frame-filters; a request that is
\* served with filters disabled or with the opt-out runs the built-in path
\* and not the filter; no request calls the filter or runs the built-in path
\* more than once.
C15_FilterGate ==
  (pc = "replied" /\ req.cmd \in ListRequests)
  => /\ (res.filter # <<>> \/ Ran("apply_frame_filter"))
        => frame_filters = 1 /\ ~OptOut
     /\ (res.status = "done" /\ (OptOut \/ frame_filters = 0))
        => res.filter = <<>> /\ Count("inbuilt") = 1
     /\ Len(res.filter) <= 1
     /\ Count("apply_frame_filter") <= 1
     /\ Count("inbuilt") <= 1

\* Filters are enabled and the request opts out: the built-in path serves it.
C15_Witness ==
  /\ pc = "replied" /\ req.cmd \in ListRequests
  /\ frame_filters = 1 /\ OptOut
  /\ res.status = "done"
  /\ res.filter = <<>> /\ Count("inbuilt") = 1

\* A listing under a policy that asks for values.
ListedWithValues ==
  /\ pc = "replied" /\ req.cmd = "list_args_or_locals"
  /\ req.argv[2] \in {PRINT_SIMPLE_VALUES, PRINT_ALL_VALUES}

\* The text of a value field is a printed value or the mark of an error.
IsPrintedValue(e) == IsField(e, "value") /\ e[3] \in {"value of x", "value of a", "value of v"}

\* C16 as stated: under PRINT_SIMPLE_VALUES and PRINT_ALL_VALUES every record
\* of the listing carries exactly one of a value and an error message.
C16_ValueInEveryRecord ==
  ListedWithValues
  => /\ res.status = "done"
     /\ \A k \in RecordStarts : Cardinality(RecordFields(k, "value")) = 1

\* C16, amended: the assertions of list_arg_or_local hold on every call; under
\* PRINT_ALL_VALUES, and under PRINT_SIMPLE_VALUES for a type that is not an
\* array, struct or union, a record carries exactly one of a value and an
\* error message; under PRINT_SIMPLE_VALUES a record of an array, struct or
\* union carries neither; no record carries both.
C16_ValueOrError ==
  (pc = "replied" /\ req.cmd = "list_args_or_locals")
  => /\ res.status = "done"
     /\ ListedWithValues
        => \A k \in RecordStarts :
             /\ Cardinality(RecordFields(k, "value")) <= 1
             /\ \A v \in RecordFields(k, "value") :
                  IsPrintedValue(res.out[v]) # IsErrorValue(res.out[v])
             /\ (RecordFields(k, "value") = {})
                <=> /\ req.argv[2] = PRINT_SIMPLE_VALUES
                    /\ \E ty \in RecordFields(k, "type") : res.out[ty][3] \in AggregateTexts

\* An int that cannot be read, under PRINT_SIMPLE_VALUES: the error is its value.
C16_Witness ==
  /\ ListedWithValues
  /\ res.out = <<ListBegin("locals"), TupleBegin(""), Field("name", "x"),
                 Field("type", "int"),
                 Field("value", "<error reading variable: Cannot access memory>"),
                 End, End>>

\* Whether the policy has the value of sym fetched.
Fetched(sym, values) ==
  \/ values = PRINT_ALL_VALUES
  \/ values = PRINT_SIMPLE_VALUES /\ sym.type \notin AggregateTypes

\* The names a qualifying symbol is to be listed under, in order: its own
\* unless the fetch left an entry value only, then name@entry if the fetch
\* gave an entry value.
RecordNames(sym, values) ==
  IF ~Fetched(sym, values) THEN <<sym.name>>
  ELSE (IF sym.fetch.a # "none" THEN <<sym.name>> ELSE <<>>)
       \o (IF sym.fetch.e # "none" THEN <<sym.name \o "@entry">> ELSE <<>>)

RECURSIVE AllRecordNames(_, _)
AllRecordNames(syms, values) ==
  IF syms = <<>> THEN <<>>
  ELSE RecordNames(Head(syms), values) \o AllRecordNames(Tail(syms), values)

\* C17: every qualifying symbol is listed once or twice, whatever the fetch
\* gave: under its name unless only an entry value came back, under
\* name@entry when an entry value came back, the name before name@entry.
C17_OneOrTwoRecords ==
  (pc = "replied" /\ req.cmd = "list_args_or_locals")
  => /\ FieldsOf(res.out, "name") = AllRecordNames(Qualifying, req.argv[2])
     /\ \A k \in 1..Len(Qualifying) :
          Len(RecordNames(Qualifying[k], req.argv[2])) \in {1, 2}
     /\ Count("list_arg_or_local") = Len(FieldsOf(res.out, "name"))

\* An argument with a value and an entry value: two records, value first.
C17_Witness ==
  /\ pc = "replied" /\ req.cmd = "list_args_or_locals"
  /\ req.argv[2] = PRINT_ALL_VALUES
  /\ Len(Qualifying) = 1
  /\ FieldsOf(res.out, "name") = <<"x", "x@entry">>

\* The blocks the listing went through, in order.
BlocksVisited ==
  LET sel == SelectSeq(res.tr, LAMBDA e : e[1] = "block")
  IN [k \in 1..Len(sel) |-> sel[k][2]]

\* C18: the listing goes through the frame's innermost block, then its
\* superblocks in turn, up to and including the first block of a function and
\* no further, each block once; a frame without a block gives an empty list.
C18_BlockWalk ==
  (pc = "replied" /\ req.cmd = "list_args_or_locals")
  => LET fr == stack[selected]
     IN /\ BlocksVisited = [k \in 1..Visited(fr) |-> Itoa(k)]
        /\ \A k \in 1..(Visited(fr) - 1) : ~fr.blocks[k].function
        /\ Visited(fr) < Len(fr.blocks) => fr.blocks[Visited(fr)].function
        /\ fr.blocks = <<>>
           => /\ BlocksVisited = <<>>
              /\ res.status = "done"
              /\ res.out = <<ListBegin(name_of_result(req.argv[1])), End>>

\* A function's block with a block around it that holds a local: the walk
\* stops at the function's block and the local is not listed.
C18_Witness ==
  /\ pc = "replied" /\ req.cmd = "list_args_or_locals"
  /\ req.argv[1] = locals
  /\ Len(stack[selected].blocks) = 2
  /\ stack[selected].blocks[1].function
  /\ stack[selected].blocks[1].syms = <<>>
  /\ Len(stack[selected].blocks[2].syms) = 2
  /\ stack[selected].blocks[2].syms[1].name = "v"
  /\ BlocksVisited = <<"1">>
  /\ res.out = <<ListBegin("locals"), End>>

\* The window a request for frames asks for: -1 and -1 when it gives none,
\* otherwise the numbers of its last two arguments.
Ranged ==
  \/ req.cmd = ListFrames /\ Len(req.argv) = 2
  \/ req.cmd = ListArgs /\ Len(req.argv) = 3

RequestedLow == IF Ranged THEN atoi(req.argv[Len(req.argv) - 1]) ELSE -1

RequestedHigh == IF Ranged THEN atoi(req.argv[Len(req.argv)]) ELSE -1

\* The steps of the positioning walk: those made before the filter is called.
StepsBeforeFilter ==
  LET at == CHOOSE k \in 1..Len(res.tr) : res.tr[k] = <<"apply_frame_filter">>
  IN Cardinality({k \in 1..(at - 1) : res.tr[k] = <<"get_prev_frame">>})

\* C19: the filter called by -stack-list-frames or -stack-list-arguments gets
\* the innermost frame, the low bound with -1 turned into 0 and the high
\* bound as requested, while the handler itself has walked to the requested
\* low; the filter called by -stack-list-locals or -stack-list-variables gets
\* the selected frame and the window (0, 0).
C19_FilterWindow ==
  FilterCalled
  => LET call == res.filter[1]
     IN IF req.cmd \in {ListFrames, ListArgs}
        THEN /\ call.frame = 1
             /\ call.low = (IF RequestedLow = -1 THEN 0 ELSE RequestedLow)
             /\ call.high = RequestedHigh
             /\ StepsBeforeFilter = (IF RequestedLow = -1 THEN 0 ELSE RequestedLow)
        ELSE /\ call.frame = selected
             /\ call.low = 0
             /\ call.high = 0

\* Frames from depth 1 on are asked for: the filter is given the innermost
\* frame and the low bound 1.
C19_Witness ==
  /\ FilterCalled
  /\ req.cmd = ListFrames /\ req.argv = <<"1", "2">>
  /\ res.filter[1].frame = 1 /\ res.filter[1].low = 1 /\ res.filter[1].high = 2

\* The bounds of a window request, as numbers.
WindowLow == atoi(req.argv[Len(req.argv) - 1])

WindowHigh == atoi(req.argv[Len(req.argv)])

\* The last depth a window reaches on a stack of D frames.
LastDepth(high, D) == IF high = -1 \/ high > D - 1 THEN D - 1 ELSE high

\* A window request that got past the parsing of its options and is served
\* by the built-in path.
BuiltinWindow ==
  /\ pc = "replied" /\ Ranged
  /\ ~(req.cmd = ListFrames /\ StartsWithDash(req.argv[1]))
  /\ BuiltinCase

====
